---------------------------- MODULE Spec2Model ----------------------------
(***************************************************************************)
(* A model of the sgiach front-end pages:                                  *)
(*   - the building placement grid  (src/static/js/sgiach-mapping.js,      *)
(*     second document, lines 800..938),                                   *)
(*   - the landing page             (src/sgiach-app.html, lines 575..975), *)
(*   - the map page                 (src/static/js/sgiach-mapping.js,      *)
(*     lines 1..235, and src/templates/index.html).                        *)
(* Every handler is one action; a handler that awaits a response is split  *)
(* at the await: the part before it issues the request, the part after it  *)
(* runs when the network answers.  Lengths are CSS pixels, as integers.    *)
(***************************************************************************)
EXTENDS Integers, Sequences, FiniteSets, TLC

VARIABLES
    \* ---- placement grid page
    layout,            \* the client rectangles of the page, fixed by the viewport
    draggedElement,    \* let draggedElement = null
    placedBuildings,   \* let placedBuildings = []
    gridChildren,      \* the .placed-building children of #buildingGrid
    warnings,          \* constraint warnings on screen
    gridEvent,         \* history: the last event handled and what it computed
    \* ---- pure snapping
    snapIn, snapOut,   \* a raw coordinate pair and its snapped pair
    \* ---- landing page
    started,             \* startApp() has run: #app is shown, the listeners are set
    checkPc,             \* where checkAPIConnection() stands
    apiStatus,           \* #apiStatus className and #statusText textContent
    currentAnalysisData, \* let currentAnalysisData = null
    resultsSummary,      \* #resultsSummary textContent
    propertiesGrid,      \* the cards of #propertiesGrid
    resultsVisible,      \* #resultsContainer is displayed
    analyzeBtn,          \* #analyzeBtn disabled and textContent
    spinnerVisible,      \* #loadingSpinner is displayed
    toasts,              \* the toasts on screen, oldest first
    errorMessages,       \* the .error-message elements on screen, oldest first
    pending,             \* the analysis requests in flight, oldest first
    appEvent,            \* history: the last event handled and what it computed
    \* ---- map page
    municipalitySelect,  \* #municipality-select value
    autoInit,            \* the 1000 ms start-up timer: "armed" or "fired"
    map,                 \* this.map
    propertyMarker,      \* this.propertyMarker
    utilityMarkers,      \* this.utilityMarkers
    amenityMarkers,      \* this.amenityMarkers
    currentProperty,     \* this.currentProperty
    analysisPanel,       \* the content of #analysis-panel
    mapPending,          \* the map page's requests in flight, oldest first
    mapEvent             \* history: the last event handled and what it did

gridVars == <<layout, draggedElement, placedBuildings, gridChildren, warnings, gridEvent>>
snapVars == <<snapIn, snapOut>>
appVars == <<started, checkPc, apiStatus, currentAnalysisData, resultsSummary,
             propertiesGrid, resultsVisible, analyzeBtn, spinnerVisible, toasts,
             errorMessages, pending, appEvent>>
mapVars == <<municipalitySelect, autoInit, map, propertyMarker, utilityMarkers,
             amenityMarkers, currentProperty, analysisPanel, mapPending, mapEvent>>
vars == <<gridVars, snapVars, appVars, mapVars>>

-----------------------------------------------------------------------------
(* Bounds of the exploration *)
MaxPlaced == 2      \* placed buildings on the grid at one time
MaxWarnings == 2    \* constraint warnings on screen at one time
MaxRaw == 50        \* raw coordinates of the snapping check: -MaxRaw..MaxRaw
MaxPending == 2     \* analysis requests in flight at one time
MaxToasts == 2      \* toasts on screen at one time
MaxErrors == 1      \* .error-message elements on screen at one time
MaxMapPending == 2  \* map page requests in flight at one time

-----------------------------------------------------------------------------
(* Placement grid: constants of the page *)

gridSize == 30

\* The palette: data-building and data-size ("WxH", split at 'x', parseInt).
Palette ==
    { [building |-> "single-family", width |-> 120, height |-> 80],
      [building |-> "duplex",        width |-> 140, height |-> 90],
      [building |-> "townhouse",     width |-> 180, height |-> 70],
      [building |-> "retail",        width |-> 200, height |-> 100],
      [building |-> "office",        width |-> 150, height |-> 150],
      [building |-> "parking",       width |-> 90,  height |-> 60],
      [building |-> "garden",        width |-> 80,  height |-> 80] }

\* The palette items the exploration drags.
DraggedItems == { it \in Palette : it.building \in {"single-family", "office", "parking"} }

ItemOf(b) == CHOOSE it \in Palette : it.building = b

\* .buildable-area { position: absolute; top/left/right/bottom: 80px }
BuildableInset == 80

\* The elements of class buildable-area, in document order, by their parent.
BuildableAreas == << "assessmentMap", "buildingGrid" >>

\* document.querySelector(sel): the first matching element in document order.
QuerySelectorBuildableArea == Head(BuildableAreas)

\* Client rectangles of #assessmentMap and #buildingGrid.  "wide": the two
\* panels side by side (grid-template-columns: 1fr 1fr; gap: 30px), here at
\* a viewport 1370 wide; "narrow": (max-width: 1200px) one column, panels
\* 600px high with a 20px gap, the assessment panel first.
Layouts ==
    { [name |-> "wide",
       assessmentMap |-> [left |-> 21, top |-> 220, width |-> 648, height |-> 430],
       buildingGrid  |-> [left |-> 701, top |-> 220, width |-> 648, height |-> 460]],
      [name |-> "narrow",
       assessmentMap |-> [left |-> 21, top |-> 220, width |-> 958, height |-> 270],
       buildingGrid  |-> [left |-> 21, top |-> 840, width |-> 958, height |-> 300]] }

\* getBoundingClientRect() of an element
BoundingClientRect(l, el) == l[el]

\* getBoundingClientRect() of the .buildable-area inside parent el
BuildableClientRect(l, el) ==
    [left   |-> l[el].left + BuildableInset,
     top    |-> l[el].top + BuildableInset,
     width  |-> l[el].width - 2 * BuildableInset,
     height |-> l[el].height - 2 * BuildableInset]

\* Math.floor in place of Math.round: what the snapping is told apart from.
SnapToGrid_Floor(v) == (v \div gridSize) * gridSize

\* Math.round(v / gridSize) * gridSize for an integer v: Math.round rounds
\* a half towards +Infinity, so it is floor(v / gridSize + 1/2).
SnapToGrid(v) == ((2 * v + gridSize) \div (2 * gridSize)) * gridSize

\* The condition of the drop handler's if.
WithinBuildable_NoRightEdge(sx, sy, w, h, bx, by, bw, bh) ==
    sx >= bx /\ sy >= by /\ sy + h <= by + bh

WithinBuildable(sx, sy, w, h, bx, by, bw, bh) ==
    sx >= bx /\ sy >= by /\ sx + w <= bx + bw /\ sy + h <= by + bh

\* The raw drop offsets from the grid's corner the exploration uses; the
\* handler reads e.clientX / e.clientY and does not check that the point is
\* inside the grid.
RawXs == { -590, -200, 85 }
RawYs == { -535, 95, 290 }

DropEvents(l) ==
    { [clientX |-> l.buildingGrid.left + dx, clientY |-> l.buildingGrid.top + dy] :
        dx \in RawXs, dy \in RawYs }

NoEvent == [kind |-> "none"]

\* A fresh element: any identity not in use; the smallest is taken.
FreshElement == CHOOSE i \in 1..(MaxPlaced + 1) :
                    /\ \A k \in 1..Len(gridChildren) : gridChildren[k].id # i
                    /\ \A j \in 1..(i - 1) : \E k \in 1..Len(gridChildren) : gridChildren[k].id = j

-----------------------------------------------------------------------------
(* Placement grid: handlers *)

\* item.addEventListener('dragstart', ...)
DragStart(it) ==
    /\ draggedElement' = it.building
    /\ gridEvent' = [kind |-> "dragstart", item |-> it.building]
    /\ UNCHANGED <<layout, placedBuildings, gridChildren, warnings>>

\* The drag of a palette item ends without a drop on the grid (released
\* elsewhere, or cancelled).  No dragend listener is registered: nothing
\* of the page's state changes.
DragEnd ==
    /\ draggedElement # "null"
    /\ gridEvent.kind = "dragstart"
    /\ gridEvent' = [kind |-> "dragend"]
    /\ UNCHANGED <<layout, draggedElement, placedBuildings, gridChildren, warnings>>

\* placeBuilding(x, y, width, height, type): the new children and records
PlaceBuildingChildren(x, y, width, height, type) ==
    Append(gridChildren,
           [id |-> FreshElement, left |-> x, top |-> y,
            width |-> width, height |-> height, type |-> type])

\* A record is pushed only if no record has the same type, position and
\* size: what the push of placeBuilding is told apart from.
PlaceBuildingRecords_Unique(x, y, width, height, type) ==
    IF \E i \in 1..Len(placedBuildings) :
          /\ placedBuildings[i].type = type
          /\ placedBuildings[i].x = x /\ placedBuildings[i].y = y
          /\ placedBuildings[i].width = width /\ placedBuildings[i].height = height
    THEN placedBuildings
    ELSE Append(placedBuildings,
                [element |-> FreshElement, x |-> x, y |-> y,
                 width |-> width, height |-> height, type |-> type])

\* No record is pushed: what the push of placeBuilding is told apart from.
PlaceBuildingRecords_NoPush(x, y, width, height, type) == placedBuildings

PlaceBuildingRecords(x, y, width, height, type) ==
    Append(placedBuildings,
           [element |-> FreshElement, x |-> x, y |-> y,
            width |-> width, height |-> height, type |-> type])

\* buildingGrid.addEventListener('drop', ...) with draggedElement set.  The
\* listener runs for every drop on the grid, whatever was dragged there (a
\* palette item, or a file or a text selection after a palette drag that
\* ended elsewhere).
Drop(e) ==
    /\ draggedElement # "null"
    /\ Len(placedBuildings) < MaxPlaced
    /\ warnings < MaxWarnings
    /\ LET rect == BoundingClientRect(layout, "buildingGrid")
           x == e.clientX - rect.left
           y == e.clientY - rect.top
           snappedX == SnapToGrid(x)
           snappedY == SnapToGrid(y)
           buildingType == draggedElement
           width == ItemOf(draggedElement).width
           height == ItemOf(draggedElement).height
           buildableRect == BuildableClientRect(layout, QuerySelectorBuildableArea)
           gridRect == BoundingClientRect(layout, "buildingGrid")
           buildableX == buildableRect.left - gridRect.left
           buildableY == buildableRect.top - gridRect.top
           buildableWidth == buildableRect.width
           buildableHeight == buildableRect.height
           ok == WithinBuildable(snappedX, snappedY, width, height,
                                 buildableX, buildableY, buildableWidth, buildableHeight)
       IN /\ IF ok
             THEN /\ gridChildren' = PlaceBuildingChildren(snappedX, snappedY, width, height, buildingType)
                  /\ placedBuildings' = PlaceBuildingRecords(snappedX, snappedY, width, height, buildingType)
                  /\ warnings' = warnings
             ELSE /\ warnings' = warnings + 1
                  /\ UNCHANGED <<gridChildren, placedBuildings>>
          /\ gridEvent' = [kind |-> "drop", x |-> x, y |-> y,
                          snappedX |-> snappedX, snappedY |-> snappedY,
                          type |-> buildingType, width |-> width, height |-> height,
                          buildableX |-> buildableX, buildableY |-> buildableY,
                          buildableWidth |-> buildableWidth,
                          buildableHeight |-> buildableHeight,
                          placed |-> ok,
                          recordsBefore |-> placedBuildings,
                          warningsBefore |-> warnings]
    /\ draggedElement' = "null"
    /\ UNCHANGED layout

\* the drop handler when nothing is dragged: if (!draggedElement) return;
DropIdle ==
    /\ draggedElement = "null"
    /\ gridEvent' = [kind |-> "idle"]
    /\ UNCHANGED <<layout, draggedElement, placedBuildings, gridChildren, warnings>>

\* The element taken out is put back at the end (a request sent again):
\* what the removal is told apart from.
RemoveAt_PutBack(s, k) == SubSeq(s, 1, k - 1) \o SubSeq(s, k + 1, Len(s)) \o <<s[k]>>

\* s.splice(k, 1), 1-based
RemoveAt(s, k) == SubSeq(s, 1, k - 1) \o SubSeq(s, k + 1, Len(s))

\* The first record that looks like the element (same type, position and
\* size): what the search by element is told apart from.
FindIndex_ByValue(el) ==
    LET c == CHOOSE c \in { gridChildren[i] : i \in 1..Len(gridChildren) } : c.id = el
        Same(r) == /\ r.type = c.type /\ r.x = c.left /\ r.y = c.top
                   /\ r.width = c.width /\ r.height = c.height
    IN  IF \E i \in 1..Len(placedBuildings) : Same(placedBuildings[i])
        THEN CHOOSE i \in 1..Len(placedBuildings) :
                /\ Same(placedBuildings[i])
                /\ \A j \in 1..(i - 1) : ~Same(placedBuildings[j])
        ELSE 0

\* placedBuildings.findIndex(b => b.element === this), 1-based; 0 for -1
FindIndex(el) ==
    IF \E i \in 1..Len(placedBuildings) : placedBuildings[i].element = el
    THEN CHOOSE i \in 1..Len(placedBuildings) :
            /\ placedBuildings[i].element = el
            /\ \A j \in 1..(i - 1) : placedBuildings[j].element # el
    ELSE 0

\* building.addEventListener('dblclick', ...) on the k-th child
DblClick(k) ==
    /\ k \in 1..Len(gridChildren)
    /\ LET this == gridChildren[k].id
           index == FindIndex(this)
       IN /\ gridChildren' = RemoveAt(gridChildren, k)
          /\ placedBuildings' = IF index > 0 THEN RemoveAt(placedBuildings, index)
                                ELSE placedBuildings
    /\ gridEvent' = [kind |-> "dblclick", element |-> gridChildren[k].id,
                     recordsBefore |-> placedBuildings,
                     childrenBefore |-> gridChildren]
    /\ UNCHANGED <<layout, draggedElement, warnings>>

WarningDelay == 2000

\* setTimeout(() => warning.remove(), 2000)
WarningTimeout ==
    /\ warnings > 0
    /\ warnings' = warnings - 1
    /\ gridEvent' = [kind |-> "timeout", after |-> WarningDelay]
    /\ UNCHANGED <<layout, draggedElement, placedBuildings, gridChildren>>

\* developmentData.placedBuildings: placedBuildings.map(b => ({type, position,
\* dimensions})), the element left out
DevelopmentData(records) ==
    [i \in 1..Len(records) |->
        [type |-> records[i].type,
         position |-> [x |-> records[i].x, y |-> records[i].y],
         dimensions |-> [width |-> records[i].width, height |-> records[i].height]]]

\* exportDevelopment(): console.log of developmentData and an alert with the
\* number of buildings; no Blob, no link, no download
ExportDevelopment ==
    /\ gridEvent' = [kind |-> "exportDevelopment",
                     logged |-> DevelopmentData(placedBuildings),
                     alert |-> <<"Development Plan exported successfully!",
                                 Len(placedBuildings)>>,
                     downloaded |-> << >>,
                     recordsBefore |-> placedBuildings]
    /\ UNCHANGED <<layout, draggedElement, placedBuildings, gridChildren, warnings>>

\* exportAssessment(): console.log of fixed data and an alert
ExportAssessment ==
    /\ gridEvent' = [kind |-> "exportAssessment",
                     alert |-> <<"Site Assessment exported successfully!">>]
    /\ UNCHANGED <<layout, draggedElement, placedBuildings, gridChildren, warnings>>

-----------------------------------------------------------------------------
(* The snapping of the drop handler alone, over a range of raw coordinates *)

NoSnap == << >>

\* const snappedX = Math.round(x / gridSize) * gridSize;  (and snappedY)
SnapDrop ==
    /\ snapOut = NoSnap
    /\ snapOut' = <<SnapToGrid(snapIn[1]), SnapToGrid(snapIn[2])>>
    /\ UNCHANGED snapIn

-----------------------------------------------------------------------------
(* Landing page: responses *)

\* An opportunity of a response.  wellFormed: it has the property and the
\* scenario fields createPropertyCard reads.
OppA == [address |-> "A", scenarios |-> <<"a1", "a2">>, wellFormed |-> TRUE]
OppB == [address |-> "B", scenarios |-> <<"b1">>, wellFormed |-> TRUE]
OppX == [address |-> "X", scenarios |-> << >>, wellFormed |-> FALSE]
\* an opportunity with its property and an empty scenarios array
OppC == [address |-> "C", scenarios |-> << >>, wellFormed |-> TRUE]

NoSummary == [total_properties_found |-> "undefined"]

ResultBody(name, hasSummary, total, hasOpportunities, opportunities) ==
    [kind |-> "result", name |-> name,
     hasSummary |-> hasSummary,
     summary |-> IF hasSummary THEN [total_properties_found |-> total] ELSE NoSummary,
     hasOpportunities |-> hasOpportunities,
     opportunities |-> opportunities]

\* getFormData(): the form's fields; the city stands for them
FormDatas == { "Edmonton", "Leduc" }

\* getTestData(formData): formData is not read
TestOpp1 == [address |-> "10542 82 Avenue NW, Edmonton, AB",
             scenarios |-> <<"Mid-Rise Apartment">>, wellFormed |-> TRUE]
TestOpp2 == [address |-> "8720 118 Avenue NW, Edmonton, AB",
             scenarios |-> <<"Mixed-Use Development">>, wellFormed |-> TRUE]
GetTestData(formData) == ResultBody("test", TRUE, "15", TRUE, <<TestOpp1, TestOpp2>>)

\* JSON bodies /analyze and /quick-analysis may answer with
ResultBodies ==
    { ResultBody("AB", TRUE, "2", TRUE, <<OppA, OppB>>),
      ResultBody("empty", TRUE, "0", TRUE, << >>),
      ResultBody("noSummary", FALSE, "0", TRUE, <<OppB>>),
      ResultBody("noOpportunities", TRUE, "1", FALSE, << >>),
      ResultBody("badOpportunity", TRUE, "2", TRUE, <<OppB, OppX>>),
      ResultBody("noScenario", TRUE, "2", TRUE, <<OppB, OppC>>) }

\* a body response.json() rejects
NotJson == [kind |-> "notjson"]
NoBody == [kind |-> "nobody"]
\* a body that parses as JSON null: response.json() resolves, reading a
\* property of it throws
JsonNull == [kind |-> "null"]

\* What the network does with a request: fetch rejects (failed), or it
\* resolves with a status and a body.
NetworkFailure == [failed |-> TRUE, status |-> 0, body |-> NoBody]
Responses(statuses, bodies) ==
    { [failed |-> FALSE, status |-> st, body |-> b] : st \in statuses, b \in bodies }

\* An error answer carries a result body, or something that is not JSON.
ErrorBodies == { b \in ResultBodies : b.name = "AB" } \cup {NotJson}
AnalysisOutcomes ==
    {NetworkFailure} \cup Responses({200}, ResultBodies \cup {NotJson})
                     \cup Responses({500}, ErrorBodies)

HealthBody(hasMessage, message) ==
    [kind |-> "health", hasMessage |-> hasMessage, message |-> message]
HealthBodies == { HealthBody(TRUE, "Ready"), HealthBody(TRUE, "v2"),
                  HealthBody(TRUE, ""), HealthBody(FALSE, "") }
HealthOutcomes ==
    {NetworkFailure} \cup Responses({200}, HealthBodies \cup {NotJson, JsonNull})
                     \cup Responses({500}, {HealthBody(TRUE, "Ready"), NotJson})
RootOutcomes == {NetworkFailure} \cup Responses({200, 500}, {NotJson})

\* response.ok
ResponseOk(o) == ~o.failed /\ o.status \in 200..299

-----------------------------------------------------------------------------
(* Landing page: rendering *)

NullData == [kind |-> "null"]

\* createPropertyCard(opportunity, rank): the card lists every scenario of
\* the opportunity (opportunity.scenarios.map); mainScenario is not used.
CreatePropertyCard_MainScenarioOnly(opportunity, rank) ==
    [rank |-> rank, address |-> opportunity.address,
     scenarios |-> IF opportunity.scenarios = << >> THEN << >>
                   ELSE <<opportunity.scenarios[1]>>]

CreatePropertyCard(opportunity, rank) ==
    [rank |-> rank, address |-> opportunity.address,
     scenarios |-> opportunity.scenarios]

\* The number of opportunities rendered before createPropertyCard throws
Renderable(opportunities) ==
    IF \E i \in 1..Len(opportunities) : ~opportunities[i].wellFormed
    THEN (CHOOSE i \in 1..Len(opportunities) :
             /\ ~opportunities[i].wellFormed
             /\ \A j \in 1..(i - 1) : opportunities[j].wellFormed) - 1
    ELSE Len(opportunities)

\* results.opportunities.forEach(...): cards appended to grid, in order
AppendCards(grid, opportunities) ==
    grid \o [i \in 1..Renderable(opportunities) |->
                CreatePropertyCard(opportunities[i], i)]

\* The grid is not cleared before the cards are appended: what
\* displayResults is told apart from.
DisplayResults_NoClear(results) ==
    IF ~results.hasSummary
    THEN [current |-> results, summary |-> resultsSummary, grid |-> propertiesGrid,
          visible |-> resultsVisible, threw |-> TRUE]
    ELSE IF ~results.hasOpportunities
    THEN [current |-> results, summary |-> results.summary, grid |-> propertiesGrid,
          visible |-> resultsVisible, threw |-> TRUE]
    ELSE IF Renderable(results.opportunities) < Len(results.opportunities)
    THEN [current |-> results, summary |-> results.summary,
          grid |-> AppendCards(propertiesGrid, results.opportunities),
          visible |-> resultsVisible, threw |-> TRUE]
    ELSE [current |-> results, summary |-> results.summary,
          grid |-> AppendCards(propertiesGrid, results.opportunities),
          visible |-> TRUE, threw |-> FALSE]

\* A display that drops the result it is given: what displayResults is
\* told apart from.
DisplayResults_Dropped(results) ==
    [current |-> currentAnalysisData, summary |-> resultsSummary, grid |-> propertiesGrid,
     visible |-> resultsVisible, threw |-> FALSE]

\* displayResults(results): the page after it, and whether it threw.
\*   currentAnalysisData = results;                       (line 781)
\*   summaryElement.textContent = ... results.summary...  (throws without summary)
\*   gridElement.innerHTML = '';                          (line 791)
\*   results.opportunities.forEach(...)                   (throws without
\*       opportunities, or at the first opportunity that cannot be rendered)
\*   resultsContainer.style.display = 'block';            (line 799)
DisplayResults(results) ==
    IF ~results.hasSummary
    THEN [current |-> results, summary |-> resultsSummary, grid |-> propertiesGrid,
          visible |-> resultsVisible, threw |-> TRUE]
    ELSE IF ~results.hasOpportunities
    THEN [current |-> results, summary |-> results.summary, grid |-> << >>,
          visible |-> resultsVisible, threw |-> TRUE]
    ELSE IF Renderable(results.opportunities) < Len(results.opportunities)
    THEN [current |-> results, summary |-> results.summary,
          grid |-> AppendCards(<< >>, results.opportunities),
          visible |-> resultsVisible, threw |-> TRUE]
    ELSE [current |-> results, summary |-> results.summary,
          grid |-> AppendCards(<< >>, results.opportunities),
          visible |-> TRUE, threw |-> FALSE]

\* The new message takes the place of those on screen: what showMessage is
\* told apart from.
ShowMessage_Replace(ts, text, type) == <<"message">>

\* showMessage(text, type): one more .message element on screen.  The text
\* and the type (the colour) of the messages a handler shows are in the
\* handler's event.
ShowMessage(ts, text, type) == Append(ts, "message")

\* the message a call of showMessage shows
Message(text, type) == [text |-> text, type |-> type]

-----------------------------------------------------------------------------
(* Landing page: connectivity check *)

\* <div class="api-status" id="apiStatus"> ... Connecting to API...
InitApiStatus == [className |-> "api-status", text |-> <<"Connecting to API...">>]
ConnectedClass == "api-status connected"
DisconnectedClass == "api-status disconnected"

\* the try block of checkAPIConnection succeeds: response.ok and the body parses
HealthConnected(o) == ResponseOk(o) /\ o.body.kind = "health"

\* `API Connected - ${healthData.message || 'Ready'}`
HealthText_NoDefault(o) ==
    <<"API Connected - ", o.body.message>>

HealthText(o) ==
    <<"API Connected - ",
      IF o.body.hasMessage /\ o.body.message # "" THEN o.body.message ELSE "Ready">>

\* the inner try block succeeds: fallbackResponse.ok
RootConnected_AnyResponse(o) == ~o.failed

RootConnected(o) == ResponseOk(o)

\* startApp(): shows #app, calls checkAPIConnection() (which fetches /health)
\* and setupEventListeners()
StartApp ==
    /\ ~started
    /\ started' = TRUE
    /\ checkPc' = "awaitHealth"
    /\ appEvent' = [kind |-> "startApp"]
    /\ UNCHANGED <<apiStatus, currentAnalysisData, resultsSummary, propertiesGrid,
                   resultsVisible, analyzeBtn, spinnerVisible, toasts, errorMessages, pending>>

\* checkAPIConnection() after await fetch(`${API_BASE_URL}/health`)
HealthSettled(o) ==
    /\ checkPc = "awaitHealth"
    /\ IF HealthConnected(o)
       THEN /\ apiStatus' = [className |-> ConnectedClass, text |-> HealthText(o)]
            /\ checkPc' = "done"
       ELSE \* catch (error): fetch(`${API_BASE_URL}/`); className is assigned
            \* before healthData.message is read
            /\ checkPc' = "awaitRoot"
            /\ apiStatus' = IF ResponseOk(o) /\ o.body = JsonNull
                            THEN [apiStatus EXCEPT !.className = ConnectedClass]
                            ELSE apiStatus
    /\ appEvent' = [kind |-> "healthSettled", outcome |-> o]
    /\ UNCHANGED <<started, currentAnalysisData, resultsSummary, propertiesGrid,
                   resultsVisible, analyzeBtn, spinnerVisible, toasts, errorMessages, pending>>

\* checkAPIConnection() after await fetch(`${API_BASE_URL}/`)
RootSettled(o) ==
    /\ checkPc = "awaitRoot"
    /\ Len(toasts) < MaxToasts
    /\ IF RootConnected(o)
       THEN /\ apiStatus' = [className |-> ConnectedClass, text |-> <<"API Connected">>]
            /\ UNCHANGED toasts
       ELSE /\ apiStatus' = [className |-> DisconnectedClass,
                             text |-> <<"API Disconnected - Using Test Data">>]
            /\ toasts' = ShowMessage(toasts,
                   <<"Cannot connect to Real Estate Analysis API. Using test data for demonstration.">>,
                   "info")
    /\ checkPc' = "done"
    /\ appEvent' = [kind |-> "rootSettled", outcome |-> o,
                    shown |-> IF RootConnected(o) THEN << >>
                              ELSE <<Message(<<"Cannot connect to Real Estate Analysis API. Using test data for demonstration.">>, "info")>>]
    /\ UNCHANGED <<started, currentAnalysisData, resultsSummary, propertiesGrid,
                   resultsVisible, analyzeBtn, spinnerVisible, errorMessages, pending>>

-----------------------------------------------------------------------------
(* Landing page: analysis *)

ButtonIdle == [disabled |-> FALSE, text |-> "Analyze Development Opportunities"]
\* The button shows the loading text but stays enabled: what the loading
\* state is told apart from.
ButtonBusy_Enabled == [disabled |-> FALSE, text |-> "Analyzing..."]

ButtonBusy == [disabled |-> TRUE, text |-> "Analyzing..."]

\* performAnalysis(formData) after await fetch(`${API_BASE_URL}/analyze`):
\* the parsed body of an ok response, getTestData(formData) on anything else
PerformAnalysis_NoOkCheck(o, formData) ==
    IF ~o.failed /\ o.body.kind = "result" THEN o.body ELSE GetTestData(formData)

PerformAnalysis(o, formData) ==
    IF ResponseOk(o) /\ o.body.kind = "result" THEN o.body ELSE GetTestData(formData)

\* handleAnalysisSubmit(e) up to await performAnalysis(formData).  The form
\* is submitted through its submit button, which is not disabled.
Submit(formData) ==
    /\ started
    /\ ~analyzeBtn.disabled
    /\ Len(pending) < MaxPending
    /\ analyzeBtn' = ButtonBusy
    /\ spinnerVisible' = TRUE
    /\ pending' = Append(pending, [endpoint |-> "/analyze", body |-> formData,
                                   overtaken |-> FALSE])
    /\ appEvent' = [kind |-> "submit"]
    /\ UNCHANGED <<started, checkPc, apiStatus, currentAnalysisData, resultsSummary,
                   propertiesGrid, resultsVisible, toasts, errorMessages>>

\* showError(message): one more .error-message
ShowError(es, message) == Append(es, message)

\* The requests left in flight once the k-th has settled and its result has
\* been displayed.  Nothing in the page orders responses (no sequence
\* number, no AbortController); the requests issued before the k-th are
\* marked as overtaken, for the record only.
Overtake(p, k) ==
    [i \in 1..(Len(p) - 1) |->
        IF i < k THEN [p[i] EXCEPT !.overtaken = TRUE] ELSE p[i + 1]]

\* handleAnalysisSubmit(e) from the answer to /analyze on: performAnalysis
\* returns, displayResults(results), catch: showError, finally: reset
AnalyzeSettled(k, o) ==
    /\ k \in 1..Len(pending)
    /\ pending[k].endpoint = "/analyze"
    /\ LET results == PerformAnalysis(o, pending[k].body)
           r == DisplayResults(results)
       IN /\ currentAnalysisData' = r.current
          /\ resultsSummary' = r.summary
          /\ propertiesGrid' = r.grid
          /\ resultsVisible' = r.visible
          /\ errorMessages' = IF r.threw
                              THEN ShowError(errorMessages, <<"Analysis failed: ", "TypeError">>)
                              ELSE errorMessages
          /\ appEvent' = [kind |-> "analyzeSettled", outcome |-> o,
                          formData |-> pending[k].body,
                          results |-> results, displayed |-> ~r.threw,
                          wasCurrent |-> currentAnalysisData = results,
                          overtaken |-> pending[k].overtaken,
                          errors |-> IF r.threw THEN <<<<"Analysis failed: ", "TypeError">>>>
                                     ELSE << >>]
          /\ pending' = IF r.threw THEN RemoveAt(pending, k) ELSE Overtake(pending, k)
    /\ Len(errorMessages') <= MaxErrors
    /\ analyzeBtn' = ButtonIdle
    /\ spinnerVisible' = FALSE
    /\ UNCHANGED <<started, checkPc, apiStatus, toasts>>

\* testQuickAnalysis() up to await fetch(`${API_BASE_URL}/quick-analysis`)
QuickTest ==
    /\ started
    /\ Len(pending) < MaxPending
    /\ Len(toasts) < MaxToasts
    /\ toasts' = ShowMessage(toasts, <<"Testing quick analysis endpoint...">>, "info")
    /\ pending' = Append(pending, [endpoint |-> "/quick-analysis", body |-> "",
                                   overtaken |-> FALSE])
    /\ appEvent' = [kind |-> "quickTest",
                    shown |-> <<Message(<<"Testing quick analysis endpoint...">>, "info")>>]
    /\ UNCHANGED <<started, checkPc, apiStatus, currentAnalysisData, resultsSummary,
                   propertiesGrid, resultsVisible, analyzeBtn, spinnerVisible, errorMessages>>

\* `Quick analysis successful! Found ${data.summary?.total_properties_found || 'some'} properties.`
QuickSuccessText(data) ==
    <<"Quick analysis successful! Found ",
      IF data.hasSummary /\ data.summary.total_properties_found # "0"
      THEN data.summary.total_properties_found ELSE "some",
      " properties.">>

\* `Quick analysis failed: ${error.message}`
QuickFailedText(message) == <<"Quick analysis failed: ", message>>

\* testQuickAnalysis() from the answer to /quick-analysis on: what it
\* displays and the messages it shows
QuickDisplays_WithoutListTest(o) ==
    /\ ResponseOk(o)
    /\ o.body.kind = "result"

QuickDisplays(o) ==
    /\ ResponseOk(o)
    /\ o.body.kind = "result"
    /\ o.body.hasOpportunities
    /\ Len(o.body.opportunities) > 0

QuickMessages(o) ==
    IF ResponseOk(o)
    THEN IF o.body.kind # "result"
         THEN \* response.json() rejects
              <<Message(QuickFailedText("SyntaxError"), "error")>>
         ELSE <<Message(QuickSuccessText(o.body), "success")>> \o
              (IF QuickDisplays(o) /\ DisplayResults(o.body).threw
               THEN <<Message(QuickFailedText("TypeError"), "error")>>
               ELSE << >>)
    ELSE \* fetch rejected, or throw new Error(`HTTP ${response.status}: ...`)
         <<Message(QuickFailedText(IF o.failed THEN "Failed to fetch" ELSE "HTTP 500"),
                   "error")>>

RECURSIVE ShowMessages(_, _)
ShowMessages(ts, ms) ==
    IF ms = << >> THEN ts
    ELSE ShowMessages(ShowMessage(ts, Head(ms).text, Head(ms).type), Tail(ms))

QuickSettled(k, o) ==
    /\ k \in 1..Len(pending)
    /\ pending[k].endpoint = "/quick-analysis"
    /\ IF QuickDisplays(o)
       THEN LET r == DisplayResults(o.body)
            IN /\ currentAnalysisData' = r.current
               /\ resultsSummary' = r.summary
               /\ propertiesGrid' = r.grid
               /\ resultsVisible' = r.visible
               /\ appEvent' = [kind |-> "quickSettled", outcome |-> o,
                               results |-> o.body, displayed |-> ~r.threw,
                               wasCurrent |-> currentAnalysisData = o.body,
                               overtaken |-> pending[k].overtaken,
                               shown |-> QuickMessages(o)]
       ELSE /\ appEvent' = [kind |-> "quickSettled", outcome |-> o,
                            results |-> NullData, displayed |-> FALSE,
                            wasCurrent |-> FALSE,
                            overtaken |-> pending[k].overtaken,
                            shown |-> QuickMessages(o)]
            /\ UNCHANGED <<currentAnalysisData, resultsSummary, propertiesGrid, resultsVisible>>
    /\ pending' = IF QuickDisplays(o) /\ ~DisplayResults(o.body).threw
                  THEN Overtake(pending, k) ELSE RemoveAt(pending, k)
    /\ toasts' = ShowMessages(toasts, QuickMessages(o))
    /\ Len(toasts') <= MaxToasts
    /\ UNCHANGED <<started, checkPc, apiStatus, analyzeBtn, spinnerVisible, errorMessages>>

\* newSearch(): the button is inside #resultsContainer
NewSearch ==
    /\ resultsVisible
    /\ resultsVisible' = FALSE
    /\ currentAnalysisData' = NullData
    /\ appEvent' = [kind |-> "newSearch"]
    /\ UNCHANGED <<started, checkPc, apiStatus, resultsSummary, propertiesGrid,
                   analyzeBtn, spinnerVisible, toasts, errorMessages, pending>>

\* 'Rank,Address,Price,Zoning,ROI,Timeline,Investment,Profit\n'
CsvHeader == <<"Rank", "Address", "Price", "Zoning", "ROI", "Timeline", "Investment", "Profit">>

\* the row exportCSV adds for opp at index (0-based in the code, index + 1
\* written): the property's fields and those of opp.scenarios[0]
CsvRow(opp, rank) == [rank |-> rank, address |-> opp.address, scenario |-> opp.scenarios[1]]

\* exportCSV throws: no opportunities array to iterate, an opportunity
\* without property, or one without a first scenario (scenario is undefined
\* and scenario.financial_analysis is read)
CsvThrows(data) ==
    \/ ~data.hasOpportunities
    \/ \E i \in 1..Len(data.opportunities) :
          ~data.opportunities[i].wellFormed \/ data.opportunities[i].scenarios = << >>

\* the csv text, as its header and its rows
Csv(data) ==
    [header |-> CsvHeader,
     rows |-> [i \in 1..Len(data.opportunities) |-> CsvRow(data.opportunities[i], i)]]

\* downloadFile(content, filename, type): the download started
DownloadFile(content, filename, type) ==
    [content |-> content, filename |-> filename, type |-> type]

\* exportCSV(), a button of #resultsContainer
ExportCSV ==
    /\ resultsVisible
    /\ Len(toasts) < MaxToasts
    /\ IF currentAnalysisData = NullData
       THEN /\ appEvent' = [kind |-> "exportCSV", downloaded |-> << >>, threw |-> FALSE,
                            shown |-> << >>]
            /\ UNCHANGED toasts
       ELSE IF CsvThrows(currentAnalysisData)
       THEN /\ appEvent' = [kind |-> "exportCSV", downloaded |-> << >>, threw |-> TRUE,
                            shown |-> << >>]
            /\ UNCHANGED toasts
       ELSE /\ appEvent' = [kind |-> "exportCSV",
                            downloaded |-> <<DownloadFile(Csv(currentAnalysisData),
                                                          "sgiach-analysis.csv", "text/csv")>>,
                            threw |-> FALSE,
                            shown |-> <<Message(<<"Analysis exported to CSV successfully!">>,
                                                "success")>>]
            /\ toasts' = ShowMessage(toasts, <<"Analysis exported to CSV successfully!">>,
                                     "success")
    /\ UNCHANGED <<started, checkPc, apiStatus, currentAnalysisData, resultsSummary,
                   propertiesGrid, resultsVisible, analyzeBtn, spinnerVisible,
                   errorMessages, pending>>

\* exportPDF(), a button of #resultsContainer
ExportPDF ==
    /\ resultsVisible
    /\ Len(toasts) < MaxToasts
    /\ toasts' = ShowMessage(toasts, <<"PDF report generation coming soon!">>, "info")
    /\ appEvent' = [kind |-> "exportPDF",
                    shown |-> <<Message(<<"PDF report generation coming soon!">>, "info")>>]
    /\ UNCHANGED <<started, checkPc, apiStatus, currentAnalysisData, resultsSummary,
                   propertiesGrid, resultsVisible, analyzeBtn, spinnerVisible,
                   errorMessages, pending>>

\* setTimeout(..., 4000) and, inside it, setTimeout(..., 300)
ToastDelay == 4000
ToastSlideOut == 300

\* showMessage: the timers remove the toast, the oldest first (same delay)
ToastTimeout ==
    /\ toasts # << >>
    /\ toasts' = Tail(toasts)
    /\ appEvent' = [kind |-> "toastTimeout", after |-> ToastDelay + ToastSlideOut]
    /\ UNCHANGED <<started, checkPc, apiStatus, currentAnalysisData, resultsSummary,
                   propertiesGrid, resultsVisible, analyzeBtn, spinnerVisible,
                   errorMessages, pending>>

\* showError: setTimeout(() => errorDiv.remove(), 5000)
ErrorTimeout ==
    /\ errorMessages # << >>
    /\ errorMessages' = Tail(errorMessages)
    /\ appEvent' = [kind |-> "errorTimeout"]
    /\ UNCHANGED <<started, checkPc, apiStatus, currentAnalysisData, resultsSummary,
                   propertiesGrid, resultsVisible, analyzeBtn, spinnerVisible, toasts, pending>>

-----------------------------------------------------------------------------
(* Map page: templates/index.html with static/js/sgiach-mapping.js *)

\* the options of #municipality-select that are explored
Municipalities == {"edmonton", "leduc"}

\* getDefaultCoordinates(municipality)
GetDefaultCoordinates(municipality) ==
    CASE municipality = "edmonton" -> [lat |-> "53.5444", lng |-> "-113.4909"]
      [] municipality = "leduc" -> [lat |-> "53.2734", lng |-> "-113.5517"]
      [] municipality = "st_albert" -> [lat |-> "53.6328", lng |-> "-113.6273"]
      [] municipality = "strathcona" -> [lat |-> "53.5225", lng |-> "-113.3048"]
      [] OTHER -> [lat |-> "53.5444", lng |-> "-113.4909"]

\* A response body of /property/comprehensive-analysis, by the fields
\* loadPropertyAnalysis and updateAnalysisPanel read.
PropertyBody(name, hasPropertyData, hasUtilities, utilities, hasAmenities, amenities, hasInfrastructure, validationRequired) ==
    [kind |-> "property", name |-> name, hasPropertyData |-> hasPropertyData,
     hasUtilities |-> hasUtilities, utility_connections |-> utilities,
     hasAmenities |-> hasAmenities, amenity_features |-> amenities,
     hasInfrastructure |-> hasInfrastructure,
     professional_validation_required |-> validationRequired]

PropertyFull == PropertyBody("full", TRUE, TRUE, <<"water", "sewer">>, TRUE, <<"transit">>, TRUE, TRUE)
PropertyOptional == PropertyBody("optional", TRUE, TRUE, <<"gas">>, TRUE, << >>, TRUE, FALSE)
PropertyDetail == PropertyBody("detail", FALSE, FALSE, << >>, FALSE, << >>, FALSE, FALSE)
PropertyNoAmenities == PropertyBody("noAmenities", TRUE, TRUE, <<"water">>, FALSE, << >>, TRUE, TRUE)
PropertyNoInfrastructure ==
    PropertyBody("noInfrastructure", TRUE, TRUE, <<"water">>, TRUE, <<"park">>, FALSE, TRUE)
PropertyBodies == {PropertyFull, PropertyOptional, PropertyDetail, PropertyNoAmenities,
                   PropertyNoInfrastructure}

LoadOutcomes ==
    {NetworkFailure} \cup Responses({200}, PropertyBodies \cup {NotJson, JsonNull})
                     \cup Responses({500}, {PropertyFull, PropertyDetail, NotJson})

\* A response body of /professional/validation-request
ValidationBody(hasRequest, request_id) ==
    [kind |-> "validation", hasRequest |-> hasRequest, request_id |-> request_id]
ValidationOutcomes ==
    {NetworkFailure} \cup Responses({200, 500}, {ValidationBody(TRUE, "VR-1"),
                                                 ValidationBody(FALSE, ""), NotJson})
                     \cup Responses({200}, {JsonNull})

\* the markup of #analysis-panel: the municipality select and the
\* 'Analyze Property' button
FormPanel == [kind |-> "form"]

\* updateAnalysisPanel(analysisData): the innerHTML it writes
PanelHtml(analysisData) ==
    [kind |-> "summary", of |-> analysisData.name,
     validationBtn |-> analysisData.professional_validation_required]

\* only the first record gets a marker: what the forEach loops are told
\* apart from
Markers_FirstOnly(records) == IF records = << >> THEN << >> ELSE <<records[1]>>

\* the markers addUtilityMarkers / addAmenityMarkers push, one per record
Markers(records) == records

LoadFailedLog == <<"Property analysis failed:">>
ValidationFailedLog == <<"Validation request failed:">>

\* loadPropertyAnalysis(coordinates, municipality) after the fetch has settled
\* with o: what it leaves in the object and the panel.  There is no
\* response.ok test; every throw inside the try block ends in console.error.
LoadPropertyAnalysis(o, current, utility, amenity, panel) ==
    LET kept == [currentProperty |-> current, utilityMarkers |-> utility,
                 amenityMarkers |-> amenity, analysisPanel |-> panel,
                 logged |-> LoadFailedLog]
        b == o.body
    IN  IF o.failed \/ b = NotJson
        THEN kept
        ELSE IF b = JsonNull \/ ~b.hasPropertyData \/ ~b.hasUtilities
        THEN [kept EXCEPT !.currentProperty = b]
        ELSE IF ~b.hasAmenities
        THEN [kept EXCEPT !.currentProperty = b,
                          !.utilityMarkers = utility \o Markers(b.utility_connections)]
        ELSE IF ~b.hasInfrastructure
        THEN [kept EXCEPT !.currentProperty = b,
                          !.utilityMarkers = utility \o Markers(b.utility_connections),
                          !.amenityMarkers = amenity \o Markers(b.amenity_features)]
        ELSE [currentProperty |-> b,
              utilityMarkers |-> utility \o Markers(b.utility_connections),
              amenityMarkers |-> amenity \o Markers(b.amenity_features),
              analysisPanel |-> PanelHtml(b),
              logged |-> << >>]

NoMarker == [kind |-> "null"]
ComprehensiveAnalysis == "/property/comprehensive-analysis"
ValidationRequest == "/professional/validation-request"

\* L.map(this.containerId) on a container that may already hold a map:
\* Leaflet 1.9.4 throws 'Map container is already initialized.'
LMapThrows_Never(m) == FALSE

LMapThrows(m) == m # "null"

\* analyzeCurrentLocation(): reads the select, then initializeMap(coordinates,
\* municipality).  The select is gone once the panel has been rewritten
\* (TypeError); L.map (Leaflet 1.9.4) throws on a container that already
\* holds a map; otherwise the map and the property marker are created and
\* loadPropertyAnalysis issues its request.
AnalyzeCurrentLocation(source) ==
    /\ Len(mapPending) < MaxMapPending
    /\ IF analysisPanel # FormPanel
       THEN /\ mapEvent' = [kind |-> "analyze", source |-> source, threw |-> "select"]
            /\ UNCHANGED <<map, propertyMarker, mapPending>>
       ELSE IF LMapThrows(map)
       THEN /\ mapEvent' = [kind |-> "analyze", source |-> source, threw |-> "L.map"]
            /\ UNCHANGED <<map, propertyMarker, mapPending>>
       ELSE /\ map' = "map"
            /\ propertyMarker' = GetDefaultCoordinates(municipalitySelect)
            /\ mapPending' = Append(mapPending,
                   [endpoint |-> ComprehensiveAnalysis,
                    body |-> [coordinates |-> GetDefaultCoordinates(municipalitySelect),
                              municipality |-> municipalitySelect]])
            /\ mapEvent' = [kind |-> "analyze", source |-> source, threw |-> "no"]
    /\ UNCHANGED <<municipalitySelect, utilityMarkers, amenityMarkers, currentProperty,
                   analysisPanel>>

\* setTimeout(() => analyzeCurrentLocation(), 1000) fires
AutoInit ==
    /\ autoInit = "armed"
    /\ autoInit' = "fired"
    /\ AnalyzeCurrentLocation("timer")

\* the user picks another municipality
SelectMunicipality(m) ==
    /\ analysisPanel = FormPanel
    /\ m # municipalitySelect
    /\ municipalitySelect' = m
    /\ mapEvent' = [kind |-> "select"]
    /\ UNCHANGED <<autoInit, map, propertyMarker, utilityMarkers, amenityMarkers,
                   currentProperty, analysisPanel, mapPending>>

\* click on 'Analyze Property'
ClickAnalyze ==
    /\ analysisPanel = FormPanel
    /\ AnalyzeCurrentLocation("button")
    /\ UNCHANGED autoInit

\* loadPropertyAnalysis() after await fetch('/property/comprehensive-analysis')
LoadSettled(k, o) ==
    /\ k \in 1..Len(mapPending)
    /\ mapPending[k].endpoint = ComprehensiveAnalysis
    /\ LET after == LoadPropertyAnalysis(o, currentProperty, utilityMarkers,
                                         amenityMarkers, analysisPanel)
       IN  /\ currentProperty' = after.currentProperty
           /\ utilityMarkers' = after.utilityMarkers
           /\ amenityMarkers' = after.amenityMarkers
           /\ analysisPanel' = after.analysisPanel
           /\ mapEvent' = [kind |-> "loadSettled", outcome |-> o,
                           before |-> [currentProperty |-> currentProperty,
                                       utilityMarkers |-> utilityMarkers,
                                       amenityMarkers |-> amenityMarkers,
                                       analysisPanel |-> analysisPanel],
                           logged |-> after.logged, alert |-> << >>]
    /\ mapPending' = RemoveAt(mapPending, k)
    /\ UNCHANGED <<municipalitySelect, autoInit, map, propertyMarker>>

\* requestProfessionalValidation() up to its await: the request body is
\* built from window.sgiachMap.currentProperty.property_data, which throws
\* before fetch is called when currentProperty is null
RequestProfessionalValidation ==
    /\ Len(mapPending) < MaxMapPending
    /\ IF currentProperty = NullData
       THEN /\ mapEvent' = [kind |-> "requestValidation", sent |-> FALSE,
                            logged |-> ValidationFailedLog, alert |-> << >>]
            /\ UNCHANGED mapPending
       ELSE /\ mapPending' = Append(mapPending,
                   [endpoint |-> ValidationRequest,
                    body |-> [validation_type |-> "comprehensive",
                              property_data |-> IF currentProperty.hasPropertyData
                                                THEN currentProperty.name
                                                ELSE "undefined"]])
            /\ mapEvent' = [kind |-> "requestValidation", sent |-> TRUE,
                            logged |-> << >>, alert |-> << >>]
    /\ UNCHANGED <<municipalitySelect, autoInit, map, propertyMarker, utilityMarkers,
                   amenityMarkers, currentProperty, analysisPanel>>

\* the alert requestProfessionalValidation shows for the answer o, if any:
\* no response.ok test; reading result.validation_request.request_id throws
\* when the body has no validation_request
ValidationAlert(o) ==
    IF ~o.failed /\ o.body.kind = "validation" /\ o.body.hasRequest
    THEN <<"Professional validation requested! Request ID: ", o.body.request_id>>
    ELSE << >>

\* requestProfessionalValidation() after await fetch('/professional/validation-request')
ValidationSettled(k, o) ==
    /\ k \in 1..Len(mapPending)
    /\ mapPending[k].endpoint = ValidationRequest
    /\ mapEvent' = [kind |-> "validationSettled", outcome |-> o,
                    before |-> [currentProperty |-> currentProperty,
                                utilityMarkers |-> utilityMarkers,
                                amenityMarkers |-> amenityMarkers,
                                analysisPanel |-> analysisPanel],
                    logged |-> IF ValidationAlert(o) = << >> THEN ValidationFailedLog
                               ELSE << >>,
                    alert |-> ValidationAlert(o)]
    /\ mapPending' = RemoveAt(mapPending, k)
    /\ UNCHANGED <<municipalitySelect, autoInit, map, propertyMarker, utilityMarkers,
                   amenityMarkers, currentProperty, analysisPanel>>

\* exportAnalysisReport(): nothing without a current property; reading
\* currentProperty.property_data.address throws when property_data is missing
ExportAnalysisReport ==
    /\ mapEvent' = [kind |-> "export",
                    downloaded |-> IF currentProperty = NullData THEN << >>
                                   ELSE IF ~currentProperty.hasPropertyData THEN << >>
                                   ELSE <<currentProperty.name>>,
                    threw |-> currentProperty # NullData /\ ~currentProperty.hasPropertyData]
    /\ UNCHANGED <<municipalitySelect, autoInit, map, propertyMarker, utilityMarkers,
                   amenityMarkers, currentProperty, analysisPanel, mapPending>>

-----------------------------------------------------------------------------
(* Specifications *)

InitGrid ==
    /\ layout \in Layouts
    /\ draggedElement = "null"
    /\ placedBuildings = << >>
    /\ gridChildren = << >>
    /\ warnings = 0
    /\ gridEvent = NoEvent

InitSnap ==
    /\ snapIn = NoSnap
    /\ snapOut = NoSnap

\* the landing page as loaded: the markup and `let currentAnalysisData = null`
InitApp ==
    /\ started = FALSE
    /\ checkPc = "idle"
    /\ apiStatus = InitApiStatus
    /\ currentAnalysisData = NullData
    /\ resultsSummary = NoSummary
    /\ propertiesGrid = << >>
    /\ resultsVisible = FALSE
    /\ analyzeBtn = ButtonIdle
    /\ spinnerVisible = FALSE
    /\ toasts = << >>
    /\ errorMessages = << >>
    /\ pending = << >>
    /\ appEvent = NoEvent

\* the snapping check draws the raw pair first
InitSnapInputs ==
    /\ snapIn \in (-MaxRaw..MaxRaw) \X (-MaxRaw..MaxRaw)
    /\ snapOut = NoSnap

\* the map page after DOMContentLoaded: new SgiachMapping('map') and the
\* start-up timer
InitMap ==
    /\ municipalitySelect = "edmonton"
    /\ autoInit = "armed"
    /\ map = "null"
    /\ propertyMarker = NoMarker
    /\ utilityMarkers = << >>
    /\ amenityMarkers = << >>
    /\ currentProperty = NullData
    /\ analysisPanel = FormPanel
    /\ mapPending = << >>
    /\ mapEvent = NoEvent

Init == InitGrid /\ InitSnap /\ InitApp /\ InitMap

\* the landing page has no placement grid: its layout plays no part
InitAppPage == Init /\ layout.name = "wide"

InitSnapCheck == InitGrid /\ InitSnapInputs /\ InitApp /\ InitMap

NextGrid ==
    \/ \E it \in DraggedItems : DragStart(it) /\ UNCHANGED <<snapVars, appVars, mapVars>>
    \/ DragEnd /\ UNCHANGED <<snapVars, appVars, mapVars>>
    \/ \E e \in DropEvents(layout) : Drop(e) /\ UNCHANGED <<snapVars, appVars, mapVars>>
    \/ DropIdle /\ UNCHANGED <<snapVars, appVars, mapVars>>
    \/ \E k \in 1..MaxPlaced : DblClick(k) /\ UNCHANGED <<snapVars, appVars, mapVars>>
    \/ WarningTimeout /\ UNCHANGED <<snapVars, appVars, mapVars>>
    \/ ExportDevelopment /\ UNCHANGED <<snapVars, appVars, mapVars>>
    \/ ExportAssessment /\ UNCHANGED <<snapVars, appVars, mapVars>>

NextSnap == SnapDrop /\ UNCHANGED <<gridVars, appVars, mapVars>>

\* The landing page's analyses: the form, the quick test, the exports.
\* These handlers read neither checkPc nor apiStatus; the connectivity
\* check, which writes only those and shows one toast, is explored
\* separately (NextConn), here its /health request stays in flight.
NextApp ==
    \/ StartApp /\ UNCHANGED <<gridVars, snapVars, mapVars>>
    \/ \E formData \in FormDatas : Submit(formData) /\ UNCHANGED <<gridVars, snapVars, mapVars>>
    \/ \E k \in 1..MaxPending, o \in AnalysisOutcomes :
          AnalyzeSettled(k, o) /\ UNCHANGED <<gridVars, snapVars, mapVars>>
    \/ QuickTest /\ UNCHANGED <<gridVars, snapVars, mapVars>>
    \/ \E k \in 1..MaxPending, o \in AnalysisOutcomes :
          QuickSettled(k, o) /\ UNCHANGED <<gridVars, snapVars, mapVars>>
    \/ NewSearch /\ UNCHANGED <<gridVars, snapVars, mapVars>>
    \/ ExportCSV /\ UNCHANGED <<gridVars, snapVars, mapVars>>
    \/ ExportPDF /\ UNCHANGED <<gridVars, snapVars, mapVars>>
    \/ ToastTimeout /\ UNCHANGED <<gridVars, snapVars, mapVars>>
    \/ ErrorTimeout /\ UNCHANGED <<gridVars, snapVars, mapVars>>

\* The landing page's connectivity check, together with the quick test,
\* whose toasts share the screen with the check's.
NextConn ==
    \/ StartApp /\ UNCHANGED <<gridVars, snapVars, mapVars>>
    \/ \E o \in HealthOutcomes : HealthSettled(o) /\ UNCHANGED <<gridVars, snapVars, mapVars>>
    \/ \E o \in RootOutcomes : RootSettled(o) /\ UNCHANGED <<gridVars, snapVars, mapVars>>
    \/ QuickTest /\ UNCHANGED <<gridVars, snapVars, mapVars>>
    \/ \E k \in 1..MaxPending, o \in AnalysisOutcomes :
          QuickSettled(k, o) /\ UNCHANGED <<gridVars, snapVars, mapVars>>
    \/ ToastTimeout /\ UNCHANGED <<gridVars, snapVars, mapVars>>

NextMap ==
    \/ AutoInit /\ UNCHANGED <<gridVars, snapVars, appVars>>
    \/ \E m \in Municipalities : SelectMunicipality(m) /\ UNCHANGED <<gridVars, snapVars, appVars>>
    \/ ClickAnalyze /\ UNCHANGED <<gridVars, snapVars, appVars>>
    \/ \E k \in 1..MaxMapPending, o \in LoadOutcomes :
          LoadSettled(k, o) /\ UNCHANGED <<gridVars, snapVars, appVars>>
    \/ RequestProfessionalValidation /\ UNCHANGED <<gridVars, snapVars, appVars>>
    \/ \E k \in 1..MaxMapPending, o \in ValidationOutcomes :
          ValidationSettled(k, o) /\ UNCHANGED <<gridVars, snapVars, appVars>>
    \/ ExportAnalysisReport /\ UNCHANGED <<gridVars, snapVars, appVars>>

SpecGrid == Init /\ [][NextGrid]_vars
SpecMap == InitAppPage /\ [][NextMap]_vars
SpecApp == InitAppPage /\ [][NextApp]_vars
SpecConn == InitAppPage /\ [][NextConn]_vars

\* One browsing context shows one document: a behaviour is one of the
\* landing page, or one of the map page, the other staying as loaded.
NextPages ==
    \/ InitMap /\ NextApp
    \/ InitApp /\ NextMap

SpecPages == InitAppPage /\ [][NextPages]_vars

\* the timers of the messages, as steps of the whole state
ToastTimer == ToastTimeout /\ UNCHANGED <<gridVars, snapVars, mapVars>>
WarningTimer == WarningTimeout /\ UNCHANGED <<snapVars, appVars, mapVars>>

\* The messages of the landing page (the toasts of the connectivity check,
\* the quick test and the exports) or those of the placement page (the
\* warnings), one page per behaviour.  A timer that has been set fires:
\* weak fairness of the two timer steps.
NextMessages ==
    \/ InitGrid /\ NextConn
    \/ InitGrid /\ ExportCSV /\ UNCHANGED <<gridVars, snapVars, mapVars>>
    \/ InitGrid /\ ExportPDF /\ UNCHANGED <<gridVars, snapVars, mapVars>>
    \/ InitApp /\ NextGrid

SpecMessages ==
    /\ InitAppPage
    /\ [][NextMessages]_vars
    /\ WF_vars(ToastTimer)
    /\ WF_vars(WarningTimer)
SpecSnap == InitSnapCheck /\ [][NextSnap]_vars

-----------------------------------------------------------------------------
(* Claims about the placement grid *)

\* The last record of placedBuildings, without its element
LastRecord ==
    LET r == placedBuildings[Len(placedBuildings)]
    IN [type |-> r.type, x |-> r.x, y |-> r.y, width |-> r.width, height |-> r.height]

\* C1: a drop with an item dragged appends a record exactly when
\* snappedX >= buildableX, snappedY >= buildableY,
\* snappedX + width <= buildableX + buildableWidth and
\* snappedY + height <= buildableY + buildableHeight; every other drop shows
\* one more warning and leaves placedBuildings as it was.
C1_PlacedIffWithinBuildable ==
    gridEvent.kind = "drop" =>
        LET d == gridEvent
            inside == /\ d.snappedX >= d.buildableX
                      /\ d.snappedY >= d.buildableY
                      /\ d.snappedX + d.width <= d.buildableX + d.buildableWidth
                      /\ d.snappedY + d.height <= d.buildableY + d.buildableHeight
        IN IF inside
           THEN /\ Len(placedBuildings) = Len(d.recordsBefore) + 1
                /\ SubSeq(placedBuildings, 1, Len(d.recordsBefore)) = d.recordsBefore
                /\ LastRecord = [type |-> d.type, x |-> d.snappedX, y |-> d.snappedY,
                                 width |-> d.width, height |-> d.height]
                /\ warnings = d.warningsBefore
           ELSE /\ placedBuildings = d.recordsBefore
                /\ warnings = d.warningsBefore + 1

\* C1 witness: an accepted drop onto a grid that already holds a building
C1_Witness ==
    /\ gridEvent.kind = "drop"
    /\ gridEvent.placed
    /\ Len(gridEvent.recordsBefore) = 1
    /\ Len(placedBuildings) = 2

\* C2 (as claimed): a drop whose snapped footprint lies inside the buildable
\* sub-region of the placement grid itself (the grid inset by 80px) is
\* accepted; the 120x80 single-family item dropped at raw (85, 95) becomes
\* the record {single-family, 90, 90, 120, 80}.
C2_GridRegionDropAccepted ==
    gridEvent.kind = "drop" =>
        LET d == gridEvent
            own == BuildableClientRect(layout, "buildingGrid")
            ownX == own.left - layout.buildingGrid.left
            ownY == own.top - layout.buildingGrid.top
        IN (/\ d.snappedX >= ownX
            /\ d.snappedY >= ownY
            /\ d.snappedX + d.width <= ownX + own.width
            /\ d.snappedY + d.height <= ownY + own.height)
           => /\ d.placed
              /\ Len(placedBuildings) > 0
              /\ LastRecord = [type |-> d.type, x |-> d.snappedX, y |-> d.snappedY,
                               width |-> d.width, height |-> d.height]

-----------------------------------------------------------------------------
(* Claims about snapping *)

Abs(n) == IF n < 0 THEN -n ELSE n

\* C3: each snapped coordinate is a multiple of the grid unit 30, lies
\* within u/2 of the raw coordinate, and is the nearest multiple of u to it
\* (round(raw / u) * u), each axis on its own.
C3_SnapIsNearestMultiple ==
    snapOut # NoSnap =>
        \A i \in 1..2 :
            /\ snapOut[i] % gridSize = 0
            /\ 2 * Abs(snapOut[i] - snapIn[i]) <= gridSize
            /\ \A k \in -(MaxRaw + 2)..(MaxRaw + 2) :
                   Abs(k * gridSize - snapIn[i]) >= Abs(snapOut[i] - snapIn[i])

\* C3 witness: both ties (x = 45, half way between 30 and 60; y = -15)
C3_Witness ==
    /\ snapIn = <<45, -15>>
    /\ snapOut = <<60, 0>>

-----------------------------------------------------------------------------
(* Claims about the landing page *)

Is2xx(o) == ~o.failed /\ o.status >= 200 /\ o.status <= 299

\* C4: whatever the network does with POST /analyze, performAnalysis hands
\* a result to its caller; after a network failure or a non-2xx answer it is
\* the hard-coded substitute (the same summary and opportunities for every
\* form payload), it is rendered, no error message is shown and the button
\* is reset.
C4_FailureGivesTestData ==
    appEvent.kind = "analyzeSettled" =>
        /\ appEvent.results.kind = "result"
        /\ ~Is2xx(appEvent.outcome) =>
              /\ appEvent.results.summary = [total_properties_found |-> "15"]
              /\ appEvent.results.opportunities = <<TestOpp1, TestOpp2>>
              /\ currentAnalysisData = appEvent.results
              /\ appEvent.displayed
              /\ resultsVisible
              /\ Len(propertiesGrid) = 2
              /\ appEvent.errors = << >>
              /\ analyzeBtn = [disabled |-> FALSE, text |-> "Analyze Development Opportunities"]
              /\ ~spinnerVisible

\* C4 witness: a 500 answer carrying a result body, for the second payload
C4_Witness ==
    /\ appEvent.kind = "analyzeSettled"
    /\ appEvent.outcome.status = 500
    /\ appEvent.outcome.body.kind = "result"
    /\ appEvent.formData = "Leduc"
    /\ currentAnalysisData.name = "test"

\* a probe's try block throws: fetch rejected, a non-2xx status, or (for
\* /health, whose body is read) a body that is not JSON
HealthProbeFailed(o) == ~Is2xx(o) \/ o.body.kind \in {"notjson", "null"}
RootProbeFailed(o) == ~Is2xx(o)

Disconnected(st) ==
    st = [className |-> "api-status disconnected",
          text |-> <<"API Disconnected - Using Test Data">>]

\* C7: GET / is fetched only when the answer to GET /health made the probe
\* fail; the indicator turns to 'API Disconnected - Using Test Data', with
\* an info toast, exactly when GET / fails too, and to the connected state
\* when GET / succeeds.
C7_RootProbeOnlyAfterHealthFailed ==
    [][ /\ (checkPc' = "awaitRoot" /\ checkPc # "awaitRoot") =>
               /\ appEvent'.kind = "healthSettled"
               /\ HealthProbeFailed(appEvent'.outcome)
        /\ appEvent'.kind = "healthSettled" =>
               /\ checkPc = "awaitHealth"
               /\ checkPc' = "awaitRoot" <=> HealthProbeFailed(appEvent'.outcome)
               /\ ~Disconnected(apiStatus')
        /\ appEvent'.kind = "rootSettled" =>
               /\ checkPc = "awaitRoot"
               /\ checkPc' = "done"
               /\ Disconnected(apiStatus') <=> RootProbeFailed(appEvent'.outcome)
               /\ RootProbeFailed(appEvent'.outcome) =>
                      /\ toasts' = Append(toasts, "message")
                      /\ Len(appEvent'.shown) = 1
                      /\ appEvent'.shown[1].type = "info"
               /\ ~RootProbeFailed(appEvent'.outcome) =>
                      /\ apiStatus'.className = "api-status connected"
                      /\ toasts' = toasts
        /\ appEvent'.kind \notin {"healthSettled", "rootSettled"} =>
               /\ apiStatus' = apiStatus
               /\ checkPc' \in {checkPc, "awaitHealth"}
      ]_vars

\* C7 witness: /health failed, / answered 200: connected
C7_Witness ==
    /\ appEvent.kind = "rootSettled"
    /\ appEvent.outcome.status = 200
    /\ apiStatus = [className |-> "api-status connected", text |-> <<"API Connected">>]

\* C7 second witness: both probes failed
C7_WitnessDisconnected ==
    /\ appEvent.kind = "rootSettled"
    /\ appEvent.outcome.status = 500
    /\ Disconnected(apiStatus)
    /\ toasts = <<"message">>
    /\ appEvent.shown[1].type = "info"

AllResults == ResultBodies \cup { GetTestData(f) : f \in FormDatas }

\* the cards are those of the first n opportunities, ranked 1..n
CardsShow(grid, opportunities, n) ==
    /\ Len(grid) = n
    /\ n <= Len(opportunities)
    /\ \A i \in 1..n : grid[i].rank = i /\ grid[i].address = opportunities[i].address

\* C9: one current result at a time.  A displayed analysis becomes the
\* current result and the grid holds its cards and nothing else; the grid
\* never mixes the cards of two results; newSearch sets the current result
\* to none and hides the results.
C9_ReplacedWholesale ==
    /\ (appEvent.kind \in {"analyzeSettled", "quickSettled"} /\ appEvent.displayed) =>
           /\ currentAnalysisData = appEvent.results
           /\ resultsVisible
           /\ CardsShow(propertiesGrid, appEvent.results.opportunities,
                        Len(appEvent.results.opportunities))
    /\ \E r \in AllResults : \E n \in 0..Len(r.opportunities) :
           CardsShow(propertiesGrid, r.opportunities, n)
    /\ appEvent.kind = "newSearch" =>
           /\ currentAnalysisData = NullData
           /\ ~resultsVisible

\* C9 witness: a result displayed over an earlier one (the error message on
\* screen is that of an earlier analysis)
C9_Witness ==
    /\ appEvent.kind = "quickSettled"
    /\ appEvent.displayed
    /\ appEvent.results.name = "AB"
    /\ errorMessages # << >>
    /\ Len(propertiesGrid) = 2

\* C9 second witness: newSearch after a displayed result
C9_WitnessNewSearch ==
    /\ appEvent.kind = "newSearch"
    /\ propertiesGrid # << >>
    /\ currentAnalysisData = NullData

\* C10 (as claimed): one card per opportunity, ranked by position, holding
\* the metrics of the first scenario only.
C10_FirstScenarioOnly ==
    (appEvent.kind \in {"analyzeSettled", "quickSettled"} /\ appEvent.displayed) =>
        /\ Len(propertiesGrid) = Len(appEvent.results.opportunities)
        /\ \A i \in 1..Len(propertiesGrid) :
               /\ propertiesGrid[i].rank = i
               /\ propertiesGrid[i].address = appEvent.results.opportunities[i].address
               /\ propertiesGrid[i].scenarios =
                      IF appEvent.results.opportunities[i].scenarios = << >> THEN << >>
                      ELSE <<appEvent.results.opportunities[i].scenarios[1]>>

\* C10 (amended): one card per opportunity, ranked 1..n by position in the
\* response, holding the metrics of every scenario of the opportunity, in
\* the order of the response.
C10_EveryScenario ==
    (appEvent.kind \in {"analyzeSettled", "quickSettled"} /\ appEvent.displayed) =>
        /\ Len(propertiesGrid) = Len(appEvent.results.opportunities)
        /\ \A i \in 1..Len(propertiesGrid) :
               /\ propertiesGrid[i].rank = i
               /\ propertiesGrid[i].address = appEvent.results.opportunities[i].address
               /\ propertiesGrid[i].scenarios =
                      appEvent.results.opportunities[i].scenarios

\* C10 witness: an opportunity with two scenarios is displayed
C10_Witness ==
    /\ appEvent.kind = "analyzeSettled"
    /\ appEvent.displayed
    /\ Len(propertiesGrid) = 2
    /\ propertiesGrid[1].scenarios = <<"a1", "a2">>
    /\ propertiesGrid[2].rank = 2

-----------------------------------------------------------------------------
(* Claims about the map page *)

\* what a map-page handler can leave behind, as it stands now
MapState ==
    [currentProperty |-> currentProperty, utilityMarkers |-> utilityMarkers,
     amenityMarkers |-> amenityMarkers, analysisPanel |-> analysisPanel]

\* C5 (as claimed): a non-2xx answer leaves the page exactly as a network
\* failure of the same request does, and its body is never used as a
\* result.  For the comprehensive analysis a network failure changes
\* nothing and logs the failure; for the validation request it shows no
\* alert.
C5_Non2xxSameAsNetworkFailure ==
    /\ (mapEvent.kind = "loadSettled" /\ ~Is2xx(mapEvent.outcome)) =>
           /\ MapState = mapEvent.before
           /\ mapEvent.logged = LoadFailedLog
           /\ (~mapEvent.outcome.failed => currentProperty # mapEvent.outcome.body)
    /\ (mapEvent.kind = "validationSettled" /\ ~Is2xx(mapEvent.outcome)) =>
           /\ mapEvent.alert = << >>
           /\ mapEvent.logged = ValidationFailedLog

\* C6 (as claimed): a failed validation request (network failure, non-2xx,
\* or no current property) is surfaced by an alert; a successful one
\* reports the request identifier by an alert and stores nothing.
C6_ValidationFailureAlerted ==
    /\ (mapEvent.kind = "validationSettled" /\ ~Is2xx(mapEvent.outcome)) =>
           mapEvent.alert # << >>
    /\ (mapEvent.kind = "requestValidation" /\ ~mapEvent.sent) =>
           mapEvent.alert # << >>
    /\ (mapEvent.kind = "validationSettled" /\ Is2xx(mapEvent.outcome)
            /\ mapEvent.outcome.body.kind = "validation"
            /\ mapEvent.outcome.body.hasRequest) =>
           /\ mapEvent.alert = <<"Professional validation requested! Request ID: ",
                                 mapEvent.outcome.body.request_id>>
           /\ MapState = mapEvent.before

-----------------------------------------------------------------------------
(* Claims about the exports, re-rendering and concurrent requests *)

\* C11 (as claimed): for a current result with n opportunities exportCSV
\* starts a download of the header row followed by n rows, the i-th with
\* rank i and the first scenario of the i-th opportunity, whatever n and the
\* number of scenarios per opportunity.
C11_ExportCSVRows ==
    (/\ appEvent.kind = "exportCSV"
     /\ currentAnalysisData # NullData
     /\ currentAnalysisData.hasOpportunities
     /\ \A i \in 1..Len(currentAnalysisData.opportunities) :
            currentAnalysisData.opportunities[i].wellFormed) =>
        /\ Len(appEvent.downloaded) = 1
        /\ appEvent.downloaded[1].content.header = CsvHeader
        /\ Len(appEvent.downloaded[1].content.rows) = Len(currentAnalysisData.opportunities)
        /\ \A i \in 1..Len(currentAnalysisData.opportunities) :
               /\ appEvent.downloaded[1].content.rows[i].rank = i
               /\ appEvent.downloaded[1].content.rows[i].scenario =
                      currentAnalysisData.opportunities[i].scenarios[1]

Tuples(records) ==
    [i \in 1..Len(records) |->
        [type |-> records[i].type, x |-> records[i].x, y |-> records[i].y,
         width |-> records[i].width, height |-> records[i].height]]

\* the tuples read back from an exported development plan
ParseDevelopment(data) ==
    [i \in 1..Len(data) |->
        [type |-> data[i].type, x |-> data[i].position.x, y |-> data[i].position.y,
         width |-> data[i].dimensions.width, height |-> data[i].dimensions.height]]

\* C13 (as claimed): exporting the placed buildings starts the download of a
\* file which, parsed back, gives the tuples of placedBuildings at the moment
\* of export, and leaves placedBuildings unchanged.
C13_ExportRoundTrip ==
    gridEvent.kind = "exportDevelopment" =>
        /\ placedBuildings = gridEvent.recordsBefore
        /\ Len(gridEvent.downloaded) = 1
        /\ ParseDevelopment(gridEvent.downloaded[1]) = Tuples(placedBuildings)

\* C14: responses are taken in the order they arrive.  Whenever the
\* response to a request settles, its result becomes the current one and,
\* if it can be rendered, the one shown, also when the response to a request
\* issued later has been displayed before it.
C14_LastArrivedWins ==
    /\ appEvent.kind = "analyzeSettled" =>
           /\ currentAnalysisData = appEvent.results
           /\ appEvent.displayed =>
                  CardsShow(propertiesGrid, appEvent.results.opportunities,
                            Len(appEvent.results.opportunities))
    /\ (appEvent.kind = "quickSettled" /\ Is2xx(appEvent.outcome)
            /\ appEvent.outcome.body.kind = "result"
            /\ appEvent.outcome.body.hasOpportunities
            /\ appEvent.outcome.body.opportunities # << >>) =>
           /\ currentAnalysisData = appEvent.outcome.body
           /\ appEvent.displayed =>
                  CardsShow(propertiesGrid, appEvent.outcome.body.opportunities,
                            Len(appEvent.outcome.body.opportunities))

\* C14 witness: the form's request was issued first, the quick test's
\* answer was displayed, then the form's answer arrived and is the current,
\* rendered result, nothing being in flight any more
C14_Witness ==
    /\ appEvent.kind = "analyzeSettled"
    /\ appEvent.overtaken
    /\ appEvent.displayed
    /\ appEvent.results.name = "AB"
    /\ currentAnalysisData = appEvent.results
    /\ Len(propertiesGrid) = 2
    /\ pending = << >>

-----------------------------------------------------------------------------
(* Claims about requests and the loading state *)

C15_WitnessNothingSent ==
    /\ mapEvent.kind = "requestValidation"
    /\ ~mapEvent.sent
    /\ map = "map"
    /\ mapPending = << >>

\* an /analyze request is in flight
AnalyzeInFlight(p) == \E i \in 1..Len(p) : p[i].endpoint = "/analyze"

\* C16: a form submission disables the button, with text 'Analyzing...',
\* and shows the spinner; they stay so exactly as long as the /analyze
\* request is in flight; when it settles, in whatever way, the button is
\* enabled with its original text and the spinner hidden; no other step (no
\* timer, no cancellation) changes the button or the spinner.
C16_LoadingUntilSettled ==
    [][ /\ appEvent'.kind = "submit" =>
               /\ analyzeBtn' = [disabled |-> TRUE, text |-> "Analyzing..."]
               /\ spinnerVisible'
        /\ appEvent'.kind = "analyzeSettled" =>
               /\ analyzeBtn' = [disabled |-> FALSE,
                                 text |-> "Analyze Development Opportunities"]
               /\ ~spinnerVisible'
        /\ AnalyzeInFlight(pending') <=>
               (analyzeBtn' = [disabled |-> TRUE, text |-> "Analyzing..."] /\ spinnerVisible')
        /\ ~AnalyzeInFlight(pending') <=>
               (analyzeBtn' = [disabled |-> FALSE,
                               text |-> "Analyze Development Opportunities"]
                /\ ~spinnerVisible')
        /\ (analyzeBtn' # analyzeBtn \/ spinnerVisible' # spinnerVisible) =>
               appEvent'.kind \in {"submit", "analyzeSettled"}
      ]_vars

\* C16 witness: the request settled with a body that cannot be rendered:
\* an error message is shown and the loading state is reset
C16_Witness ==
    /\ appEvent.kind = "analyzeSettled"
    /\ ~appEvent.displayed
    /\ errorMessages # << >>
    /\ ~analyzeBtn.disabled
    /\ ~spinnerVisible

\* C16 second witness: the request is still in flight while other events
\* (here a quick test, answered) have been handled
C16_WitnessStillLoading ==
    /\ appEvent.kind = "quickSettled"
    /\ AnalyzeInFlight(pending)
    /\ analyzeBtn.disabled
    /\ spinnerVisible

-----------------------------------------------------------------------------
(* Claims about the placement cycle, removal and duplicates *)

\* C17: idle -> dragging -> placed or rejected -> idle.  A dragstart makes
\* the palette item the dragged one; a drop with an item dragged places it
\* or shows a warning, and in both cases ends with nothing dragged; a drop
\* with nothing dragged changes nothing; nothing else changes what is
\* dragged.
C17_PlacementCycle ==
    [][ /\ gridEvent'.kind = "dragstart" =>
               /\ draggedElement' = gridEvent'.item
               /\ draggedElement' \in { it.building : it \in Palette }
               /\ UNCHANGED <<placedBuildings, gridChildren, warnings>>
        /\ gridEvent'.kind = "drop" =>
               /\ draggedElement # "null"
               /\ gridEvent'.type = draggedElement
               /\ draggedElement' = "null"
               /\ IF gridEvent'.placed
                  THEN /\ Len(placedBuildings') = Len(placedBuildings) + 1
                       /\ Len(gridChildren') = Len(gridChildren) + 1
                       /\ warnings' = warnings
                  ELSE /\ warnings' = warnings + 1
                       /\ UNCHANGED <<placedBuildings, gridChildren>>
        /\ gridEvent'.kind = "idle" =>
               /\ draggedElement = "null"
               /\ UNCHANGED <<draggedElement, placedBuildings, gridChildren, warnings>>
        /\ draggedElement' # draggedElement => gridEvent'.kind \in {"dragstart", "drop"}
      ]_vars

\* C17 witness: a rejected drop, after which nothing is dragged
C17_Witness ==
    /\ gridEvent.kind = "drop"
    /\ ~gridEvent.placed
    /\ draggedElement = "null"
    /\ warnings = 1
    /\ Len(placedBuildings) = 1

\* C17 second witness: a drop with nothing dragged, a building being placed
C17_WitnessIdleDrop ==
    /\ gridEvent.kind = "idle"
    /\ Len(placedBuildings) = 1
    /\ warnings = 0

\* the records other than those of element el, in order
RecordsWithout(records, el) == SelectSeq(records, LAMBDA r : r.element # el)

\* the elements other than el, in order
ChildrenWithout(children, el) == SelectSeq(children, LAMBDA c : c.id # el)

\* C18: a double click on a placed building removes that building's record
\* and its element, and only those: the other records and elements stay, in
\* the same order, also when another record has the same type, position
\* and size.
C18_DblClickRemovesExactlyOne ==
    gridEvent.kind = "dblclick" =>
        /\ Len(placedBuildings) = Len(gridEvent.recordsBefore) - 1
        /\ Len(gridChildren) = Len(gridEvent.childrenBefore) - 1
        /\ placedBuildings = RecordsWithout(gridEvent.recordsBefore, gridEvent.element)
        /\ gridChildren = ChildrenWithout(gridEvent.childrenBefore, gridEvent.element)

\* C18 witness: of two buildings of the same type, position and size the
\* second one is double-clicked; the first one's record and element stay
C18_Witness ==
    /\ gridEvent.kind = "dblclick"
    /\ Len(gridEvent.recordsBefore) = 2
    /\ Tuples(gridEvent.recordsBefore)[1] = Tuples(gridEvent.recordsBefore)[2]
    /\ gridEvent.element = gridEvent.recordsBefore[2].element
    /\ placedBuildings = <<gridEvent.recordsBefore[1]>>
    /\ Len(gridChildren) = 1
    /\ gridChildren[1].id = placedBuildings[1].element

\* C19: an accepted drop appends its record after the records already
\* there, whatever they are: no record is replaced or reordered, and a
\* record equal in type, position and size to an earlier one is appended
\* all the same, with an element of its own.
C19_AppendedInOrderDuplicatesKept ==
    (gridEvent.kind = "drop" /\ gridEvent.placed) =>
        /\ Len(placedBuildings) = Len(gridEvent.recordsBefore) + 1
        /\ SubSeq(placedBuildings, 1, Len(gridEvent.recordsBefore)) = gridEvent.recordsBefore
        /\ Tuples(placedBuildings)[Len(placedBuildings)] =
               [type |-> gridEvent.type, x |-> gridEvent.snappedX, y |-> gridEvent.snappedY,
                width |-> gridEvent.width, height |-> gridEvent.height]
        /\ \A i \in 1..Len(gridEvent.recordsBefore) :
               placedBuildings[i].element # placedBuildings[Len(placedBuildings)].element
        /\ Len(gridChildren) = Len(placedBuildings)
        /\ gridChildren[Len(gridChildren)].id = placedBuildings[Len(placedBuildings)].element

\* C19 witness: two accepted drops of the same item at the same snapped
\* position: two records, two elements
C19_Witness ==
    /\ gridEvent.kind = "drop"
    /\ gridEvent.placed
    /\ Len(placedBuildings) = 2
    /\ Tuples(placedBuildings)[1] = Tuples(placedBuildings)[2]
    /\ placedBuildings[1].element # placedBuildings[2].element
    /\ Len(gridChildren) = 2
    /\ gridChildren[1].left = gridChildren[2].left
    /\ gridChildren[1].top = gridChildren[2].top

-----------------------------------------------------------------------------
(* Claims about transient messages *)

\* C20: showing messages adds them to those on screen and removes none: a
\* step that shows k toasts leaves k more on screen, a rejected drop one more
\* warning; a message leaves the screen only by its timer (4000 + 300 ms for
\* a toast, 2000 ms for a warning), one at a time; and while a message is on
\* screen a timer removal follows, no user action being needed.
C20_MessagesStackAndExpire ==
    /\ [][ /\ appEvent'.kind \in {"rootSettled", "quickTest", "quickSettled",
                                  "exportCSV", "exportPDF"} =>
                  /\ Len(toasts') = Len(toasts) + Len(appEvent'.shown)
                  /\ SubSeq(toasts', 1, Len(toasts)) = toasts
           /\ Len(toasts') < Len(toasts) =>
                  /\ appEvent'.kind = "toastTimeout"
                  /\ appEvent'.after = 4300
                  /\ toasts' = Tail(toasts)
           /\ (gridEvent'.kind = "drop" /\ ~gridEvent'.placed) => warnings' = warnings + 1
           /\ warnings' < warnings =>
                  /\ gridEvent'.kind = "timeout"
                  /\ gridEvent'.after = 2000
                  /\ warnings' = warnings - 1
         ]_vars
    /\ (toasts # << >>) ~> (appEvent.kind = "toastTimeout")
    /\ (warnings > 0) ~> (gridEvent.kind = "timeout")

\* C20 witness: two toasts on screen at once, the second shown by the
\* answer to a quick test while the first was still there
C20_Witness ==
    /\ appEvent.kind = "quickSettled"
    /\ Len(appEvent.shown) = 1
    /\ Len(toasts) = 2

\* C20 second witness: two warnings on screen at once
C20_WitnessWarnings ==
    /\ gridEvent.kind = "drop"
    /\ ~gridEvent.placed
    /\ warnings = 2

-----------------------------------------------------------------------------
(* Claims about the markers and the state of the map page *)

C24_AnalysisAllOrNothing ==
    /\ (mapEvent.kind = "loadSettled" /\ mapEvent.logged = LoadFailedLog) =>
           MapState = mapEvent.before
    /\ currentProperty # NullData =>
           /\ analysisPanel = PanelHtml(currentProperty)
           /\ utilityMarkers = currentProperty.utility_connections
           /\ amenityMarkers = currentProperty.amenity_features

-----------------------------------------------------------------------------
(* Claims about the connection indicator *)

\* the three states of #apiStatus: its class together with its text
IndicatorConnecting(st) ==
    st = [className |-> "api-status", text |-> <<"Connecting to API...">>]
IndicatorConnected(st) ==
    /\ st.className = "api-status connected"
    /\ st.text[1] \in {"API Connected - ", "API Connected"}

\* C23 (as claimed): the indicator is always in exactly one of the states
\* connecting, connected, disconnected; it is connecting until the
\* connectivity check has finished and shows the check's outcome from then on.
C23_IndicatorTriState ==
    /\ \/ IndicatorConnecting(apiStatus)
       \/ IndicatorConnected(apiStatus)
       \/ Disconnected(apiStatus)
    /\ checkPc # "done" => IndicatorConnecting(apiStatus)
    /\ checkPc = "done" => (IndicatorConnected(apiStatus) \/ Disconnected(apiStatus))

-----------------------------------------------------------------------------
(* Claims about abandoned drags *)

\* C25 (as claimed): a palette drag that ends without a drop on the grid
\* leaves nothing dragged, and the next drop on the grid, with no drag-start
\* on a palette item in between, places no building and shows no warning.
C25_AbandonedDragIsIdle ==
    [][ /\ gridEvent'.kind = "dragend" => draggedElement' = "null"
        /\ (gridEvent.kind = "dragend" /\ gridEvent'.kind \in {"drop", "idle"}) =>
              /\ placedBuildings' = placedBuildings
              /\ gridChildren' = gridChildren
              /\ warnings' = warnings
      ]_vars

-----------------------------------------------------------------------------
(* Claims about the current result of the landing page *)

\* C26 (as claimed): after newSearch the current result stays none and the
\* results container stays hidden until an analysis started after it
\* answers; the answer to a request that was already in flight when
\* newSearch ran (the very next step after newSearch is its settling)
\* does not display results again.
C26_NewSearchStaysCleared ==
    [][ /\ appEvent'.kind = "newSearch" =>
              /\ currentAnalysisData' = NullData
              /\ ~resultsVisible'
        /\ (appEvent.kind = "newSearch"
                /\ appEvent'.kind \in {"analyzeSettled", "quickSettled"}) =>
              /\ currentAnalysisData' = NullData
              /\ ~resultsVisible'
      ]_vars

\* C27 (as claimed): whenever the current result is not none it is a result
\* that could be rendered, the results container is visible and the card
\* grid shows one card per opportunity of that result, in order.
C27_CurrentResultIsShown ==
    currentAnalysisData # NullData =>
        /\ resultsVisible
        /\ currentAnalysisData.hasSummary
        /\ currentAnalysisData.hasOpportunities
        /\ Len(propertiesGrid) = Len(currentAnalysisData.opportunities)
        /\ \A i \in 1..Len(propertiesGrid) :
              /\ propertiesGrid[i].rank = i
              /\ propertiesGrid[i].address = currentAnalysisData.opportunities[i].address

\* a quick test that fails, or succeeds without opportunities to display
QuickShowsNothing(o) ==
    \/ ~Is2xx(o)
    \/ o.body.kind # "result"
    \/ ~o.body.hasOpportunities
    \/ o.body.opportunities = << >>

\* C28: a quick-analysis test that fails (network failure, non-2xx, a body
\* that is not JSON) or that succeeds with an empty or absent opportunities
\* list leaves the current result, the summary, the card grid and the
\* visibility of the results container as they were, and shows exactly one
\* toast: an error toast for a failure, the success toast otherwise.  The
\* test data of the form's fallback is never substituted.
C28_QuickTestWithoutResultChangesNothing ==
    [][ (appEvent'.kind = "quickSettled" /\ QuickShowsNothing(appEvent'.outcome)) =>
            /\ currentAnalysisData' = currentAnalysisData
            /\ resultsSummary' = resultsSummary
            /\ propertiesGrid' = propertiesGrid
            /\ resultsVisible' = resultsVisible
            /\ ~appEvent'.displayed
            /\ Len(appEvent'.shown) = 1
            /\ toasts' = Append(toasts, "message")
            /\ appEvent'.shown[1].type =
                   (IF Is2xx(appEvent'.outcome) /\ appEvent'.outcome.body.kind = "result"
                    THEN "success" ELSE "error")
      ]_vars

\* C28 witness: with a result on screen, a quick test answered 200 with an
\* empty opportunities list has shown its toast
C28_Witness ==
    /\ appEvent.kind = "quickSettled"
    /\ appEvent.outcome.status = 200
    /\ appEvent.outcome.body.kind = "result"
    /\ appEvent.outcome.body.hasOpportunities
    /\ appEvent.outcome.body.opportunities = << >>
    /\ resultsVisible
    /\ currentAnalysisData # NullData

\* C28 second witness: with a result on screen, a quick test answered 500
C28_WitnessFailed ==
    /\ appEvent.kind = "quickSettled"
    /\ appEvent.outcome.status = 500
    /\ appEvent.shown[1].type = "error"
    /\ resultsVisible
    /\ currentAnalysisData # NullData

-----------------------------------------------------------------------------
(* Claims about concurrent submissions *)

\* the requests to /analyze among those in flight
AnalyzeRequests(p) == { i \in 1..Len(p) : p[i].endpoint = "/analyze" }

\* C29: at most one request to /analyze is in flight at any time; while one
\* is, the analyze button is disabled; and a submission is only ever
\* handled when none is in flight.
C29_AtMostOneAnalyzeInFlight ==
    [][ /\ Cardinality(AnalyzeRequests(pending')) <= 1
        /\ AnalyzeRequests(pending') # {} => analyzeBtn'.disabled
        /\ appEvent'.kind = "submit" =>
              /\ AnalyzeRequests(pending) = {}
              /\ Cardinality(AnalyzeRequests(pending')) = 1
      ]_vars

\* C29 witness: a submission awaits its answer next to a quick test that was
\* started after it
C29_Witness ==
    /\ Len(pending) = 2
    /\ pending[1].endpoint = "/analyze"
    /\ pending[2].endpoint = "/quick-analysis"
    /\ analyzeBtn.disabled

-----------------------------------------------------------------------------
(* Claims about the records and the elements of the grid *)

\* C30: in every state reached by drops and double-click removals the
\* records of placedBuildings and the placed-building elements of the grid
\* correspond one to one: as many of each, no element twice, the i-th record
\* refers to the i-th element and holds the left, top, width, height and
\* type that element is drawn with.
C30_RecordsMatchElements ==
    /\ Len(placedBuildings) = Len(gridChildren)
    /\ \A i, j \in 1..Len(gridChildren) :
          gridChildren[i].id = gridChildren[j].id => i = j
    /\ \A i \in 1..Len(placedBuildings) :
          /\ placedBuildings[i].element = gridChildren[i].id
          /\ placedBuildings[i].x = gridChildren[i].left
          /\ placedBuildings[i].y = gridChildren[i].top
          /\ placedBuildings[i].width = gridChildren[i].width
          /\ placedBuildings[i].height = gridChildren[i].height
          /\ placedBuildings[i].type = gridChildren[i].type

\* C30 witness: of two buildings with the same type, position and size the
\* second has been removed by a double click, the first is left
C30_Witness ==
    /\ gridEvent.kind = "dblclick"
    /\ Len(gridEvent.recordsBefore) = 2
    /\ gridEvent.element = gridEvent.recordsBefore[2].element
    /\ [gridEvent.recordsBefore[1] EXCEPT !.element = 0]
          = [gridEvent.recordsBefore[2] EXCEPT !.element = 0]
    /\ Len(placedBuildings) = 1
    /\ Len(gridChildren) = 1

=============================================================================
